---- MODULE Spec2Model ----
(***************************************************************************)
(* A model of petra_grid_py: the Filey stream source (src/src/filey.rs),   *)
(* the read_grid entry point, the to_pyerr error translator and the Grid   *)
(* getters (src/src/lib.rs).                                               *)
(*                                                                         *)
(* The byte-level decoder (petra_grid::Grid::read) and the host file       *)
(* object are collaborators outside the repository: the decoder is a       *)
(* client that issues read/seek requests and ends with a record or an      *)
(* error, the host object is whatever answers the method calls.            *)
(***************************************************************************)
EXTENDS Integers, Sequences, FiniteSets, TLC

(***************************************************************************)
(* Bounds.  W is the width, in bits, that stands for Rust's 64: u64 is     *)
(* 0 .. 2^W - 1 and i64 is -2^(W-1) .. 2^(W-1) - 1.                        *)
(***************************************************************************)
W == 3
MaxLen == 2
MaxBuf == 2
MaxCalls == 2

RECURSIVE Pow2(_)
Pow2(n) == IF n = 0 THEN 1 ELSE 2 * Pow2(n - 1)

U64Max == Pow2(W) - 1
I64Max == Pow2(W - 1) - 1
I64Min == 0 - Pow2(W - 1)
U64 == 0 .. U64Max
I64 == I64Min .. I64Max

Min(a, b) == IF a < b THEN a ELSE b

Byte == {0, 1}

RECURSIVE SeqsUpTo(_, _)
SeqsUpTo(S, n) ==
  IF n = 0 THEN {<<>>}
  ELSE LET shorter == SeqsUpTo(S, n - 1)
       IN  shorter \cup {Append(s, x) : s \in {t \in shorter : Len(t) = n - 1}, x \in S}

Zeros(n) == [i \in 1 .. n |-> 0]

(***************************************************************************)
(* Values crossing the stream interface.                                   *)
(***************************************************************************)
\* io::Result<usize> / io::Result<u64>
IoOk(v) == [ok |-> TRUE, val |-> v, err |-> "none"]
IoErr(e) == [ok |-> FALSE, val |-> 0, err |-> e]
NoRet == [ok |-> TRUE, val |-> 0, err |-> "none"]

\* what a host method call produces: an exception, or a value of some type
HostRaise == [tag |-> "raise", v |-> 0, b |-> <<>>]
HostInt(v) == [tag |-> "int", v |-> v, b |-> <<>>]
HostBytes(b) == [tag |-> "bytes", v |-> 0, b |-> b]
HostStr == [tag |-> "str", v |-> 0, b |-> <<>>]
NoResp == [tag |-> "none", v |-> 0, b |-> <<>>]

HostCall(m, a1, a2) == [method |-> m, a1 |-> a1, a2 |-> a2]

\* a request of the decoder
ReqRead(n) == [op |-> "read", n |-> n, whence |-> "Start", off |-> 0]
ReqSeek(wh, off) == [op |-> "seek", n |-> 0, whence |-> wh, off |-> off]
NoReq == [op |-> "none", n |-> 0, whence |-> "Start", off |-> 0]

Whences == {"Start", "Current", "End"}

\* SeekFrom::Start carries a u64, SeekFrom::Current and SeekFrom::End an i64
SeekFroms == {ReqSeek("Start", o) : o \in U64}
               \cup {ReqSeek(wh, o) : wh \in {"Current", "End"}, o \in I64}

(***************************************************************************)
(* Filey::RustFile: a local file of bytes `content` with offset `pos`.     *)
(***************************************************************************)
\* `off as i64` on a u64: the two's complement reinterpretation
AsI64(off) == IF off > I64Max THEN off - Pow2(W) ELSE off

RustFile_read(content, pos, n) ==
  LET avail == IF pos >= Len(content) THEN 0 ELSE Len(content) - pos
      k == Min(n, avail)
  IN  [ret |-> IoOk(k), data |-> SubSeq(content, pos + 1, pos + k), pos |-> pos + k]

RustFile_seek(content, pos, whence, off) ==
  LET base == CASE whence = "Start" -> 0
                [] whence = "Current" -> pos
                [] OTHER -> Len(content)
      o == IF whence = "Start" THEN AsI64(off) ELSE off
      target == base + o
  IN  IF target < 0 THEN [ret |-> IoErr("EINVAL"), pos |-> pos]
      ELSE IF target > I64Max THEN [ret |-> IoErr("EOVERFLOW"), pos |-> pos]
      ELSE [ret |-> IoOk(target), pos |-> target]

(***************************************************************************)
(* Filey::PyFileLike: the calls made on the host object and the            *)
(* conversion of what it returns.                                          *)
(***************************************************************************)
\* o.call_method1(py, "read", (buf.len(),))
PyRead_call(buf) == HostCall("read", Len(buf), 0)

\* a read that takes fewer bytes than asked for to be a failure
PyRead_result_ShortIsError(buf, resp) ==
  IF resp.tag # "bytes" \/ Len(resp.b) < Len(buf) THEN [ret |-> IoErr("PyErr"), buf |-> buf]
  ELSE [ret |-> IoOk(Len(buf)), buf |-> [i \in 1 .. Len(buf) |-> resp.b[i]]]

\* .extract(py)? into &[u8], then buf.write(..): copies min(len) bytes
PyRead_result(buf, resp) ==
  IF resp.tag = "raise" THEN [ret |-> IoErr("PyErr"), buf |-> buf]
  ELSE IF resp.tag # "bytes" THEN [ret |-> IoErr("PyErr"), buf |-> buf]
  ELSE LET k == Min(Len(buf), Len(resp.b))
       IN  [ret |-> IoOk(k),
            buf |-> [i \in 1 .. Len(buf) |-> IF i <= k THEN resp.b[i] ELSE buf[i]]]

\* Current and End exchanged
WhenceCode_Swapped(whence) ==
  CASE whence = "Start" -> 0
    [] whence = "Current" -> 2
    [] OTHER -> 1

WhenceCode(whence) ==
  CASE whence = "Start" -> 0
    [] whence = "Current" -> 1
    [] OTHER -> 2

\* the args tuple of Filey::seek
PySeek_call(whence, off) ==
  HostCall("seek", IF whence = "Start" THEN AsI64(off) ELSE off, WhenceCode(whence))

\* a seek that takes whatever is no offset to be offset 0
PySeek_result_Lenient(resp) ==
  IF resp.tag = "raise" THEN IoErr("PyErr")
  ELSE IF resp.tag # "int" \/ resp.v < 0 \/ resp.v > U64Max THEN IoOk(0)
  ELSE IoOk(resp.v)

\* Ok(o.call_method1(py, "seek", args)?.extract(py)?) into u64
PySeek_result(resp) ==
  IF resp.tag = "raise" THEN IoErr("PyErr")
  ELSE IF resp.tag # "int" THEN IoErr("PyErr")
  ELSE IF resp.v < 0 \/ resp.v > U64Max THEN IoErr("PyErr")
  ELSE IoOk(resp.v)

(***************************************************************************)
(* The decoder's errors and their translation (to_pyerr), and the values   *)
(* read_grid ends with.                                                    *)
(***************************************************************************)
\* petra_grid::Error: the IOError variant wraps an io::Error, every other
\* variant is a decode failure with a message
IOError(cause) == [variant |-> "IOError", cause |-> cause, msg |-> "io"]
FormatError(variant, msg) == [variant |-> variant, cause |-> "none", msg |-> msg]
NoError == [variant |-> "none", cause |-> "none", msg |-> "none"]

\* the decode failures the decoder may end with
FormatErrors ==
  {FormatError("InvalidMagic", "bad magic"), FormatError("InvalidUnit", "unknown unit code")}

\* format!("{}", err)
Display(err) == IF err.variant = "IOError" THEN err.cause ELSE err.msg

\* a raised host exception: its category, the io::Error it carries, its message
PyOSError(cause) == [kind |-> "Err", cat |-> "io", cause |-> cause, msg |-> "none"]
PyValueError(msg) == [kind |-> "Err", cat |-> "value", cause |-> "none", msg |-> msg]
GridValue == [kind |-> "Grid", cat |-> "none", cause |-> "none", msg |-> "none"]
NoResult == [kind |-> "none", cat |-> "none", cause |-> "none", msg |-> "none"]

\* a translator with one category only
to_pyerr_AllValue(err) == PyValueError(Display(err))

to_pyerr(err) ==
  IF err.variant = "IOError" THEN PyOSError(err.cause)
  ELSE PyValueError(Display(err))

\* read_grid's last line: Ok(Grid(..)) or the translated error
read_grid_end(decoded) ==
  IF decoded.variant = "none" THEN GridValue ELSE to_pyerr(decoded)

(***************************************************************************)
(* A well-behaved host file object over the bytes `content`, at offset     *)
(* `pos`: what open(path, "rb") answers.                                   *)
(***************************************************************************)
HostFile_read(content, pos, n) ==
  LET avail == IF pos >= Len(content) THEN 0 ELSE Len(content) - pos
      k == Min(n, avail)
  IN  [resp |-> HostBytes(SubSeq(content, pos + 1, pos + k)), pos |-> pos + k]

HostFile_seek(content, pos, off, whence) ==
  LET base == CASE whence = 0 -> 0
                [] whence = 1 -> pos
                [] OTHER -> Len(content)
      target == base + off
  IN  IF whence \notin {0, 1, 2} \/ target < 0 \/ target > I64Max
      THEN [resp |-> HostRaise, pos |-> pos]
      ELSE [resp |-> HostInt(target), pos |-> target]

(***************************************************************************)
(* The Grid value: a wrapped petra_grid::Grid record and its getters.      *)
(***************************************************************************)
MaxDim == 2
MaxTriangles == 2

\* the years a created_date can hold that matter to the host's datetime
Years == {-1, 0, 1, 2023, 9999}

Date(y) == [year |-> y, month |-> 6, day |-> 15, hour |-> 12, minute |-> 30,
            second |-> 45, microsecond |-> 250000]

Units == {"Feet", "Meters"}

Rectangular(rows, columns) ==
  [tag |-> "Rectangular", shape |-> <<rows, columns>>,
   cells |-> [i \in 1 .. rows * columns |-> i]]
Triangular(n) ==
  [tag |-> "Triangular", shape |-> <<n, 3, 3>>,
   cells |-> [i \in 1 .. n * 9 |-> i]]

Record(rows, columns, ntri, xy, z, y, data) ==
  [version |-> 2, name |-> "grid", size |-> rows * columns, rows |-> rows,
   columns |-> columns, n_triangles |-> ntri,
   xmin |-> 0, xmax |-> 10, ymin |-> 0, ymax |-> 20, xstep |-> 1, ystep |-> 2,
   zmin |-> -5, zmax |-> 5, xyunits |-> xy, zunits |-> z, created_date |-> Date(y),
   source_data |-> "wells", unknown_metadata |-> "C66", projection |-> "TX-27C",
   datum |-> "NAD27", grid_method |-> 1, projection_code |-> 7, cm |-> -100,
   rlat |-> 31, data |-> data]

\* the records the decoder produces: n_triangles is 0 exactly for a rectangular grid
GridRecords ==
  {Record(r, c, 0, xy, z, y, Rectangular(r, c)) :
     r \in 1 .. MaxDim, c \in 1 .. MaxDim, xy \in Units, z \in Units, y \in Years}
  \cup
  {Record(MaxDim, MaxDim, n, xy, z, y, Triangular(n)) :
     n \in 1 .. MaxTriangles, xy \in Units, z \in Units, y \in Years}

Returned(v) == [ok |-> TRUE, val |-> <<v>>]
Raised(e) == [ok |-> FALSE, val |-> <<e>>]

\* impl From<petra_grid::UnitOfMeasure> for UnitOfMeasure
UnitOfMeasure_from(uom) ==
  CASE uom = "Feet" -> "UnitOfMeasure.Feet"
    [] uom = "Meters" -> "UnitOfMeasure.Meters"

\* PyDateTime::new: the host's datetime takes the years 1 to 9999 only
PyDateTime_new(year, month, day, hour, minute, second, microsecond) ==
  IF /\ year >= 1 /\ year <= 9999
     /\ month \in 1 .. 12 /\ day \in 1 .. 31
     /\ hour \in 0 .. 23 /\ minute \in 0 .. 59 /\ second \in 0 .. 59
     /\ microsecond \in 0 .. 999999
  THEN Returned(<<year, month, day, hour, minute, second, microsecond>>)
  ELSE Raised("ValueError")

get_created_date(g) ==
  LET dt == g.created_date
  IN  PyDateTime_new(dt.year, dt.month, dt.day, dt.hour, dt.minute, dt.second,
                     dt.microsecond)

\* to_pyarray keeps the array's shape and the order of its values
get_data(g) ==
  IF g.data.tag = "Rectangular"
  THEN Returned([shape |-> g.data.shape, values |-> g.data.cells])
  ELSE Returned([shape |-> g.data.shape, values |-> g.data.cells])

get_n_triangles(g) == g.n_triangles

get_is_rectangular_Always(g) == TRUE

get_is_rectangular(g) == IF g.data.tag = "Rectangular" THEN TRUE ELSE FALSE

get_is_triangular(g) == IF g.data.tag = "Triangular" THEN TRUE ELSE FALSE

\* format!("{:?}", self.0)
repr(g) == <<"Grid", g>>

PlainGetters ==
  {"version", "name", "size", "rows", "columns", "xmin", "xmax", "ymin", "ymax",
   "xstep", "ystep", "zmin", "zmax", "source_data", "unknown_metadata", "projection",
   "datum", "grid_method", "projection_code", "cm", "rlat"}

Getters ==
  PlainGetters \cup {"n_triangles", "xyunits", "zunits", "created_date", "data",
                     "is_rectangular", "is_triangular", "__repr__"}

\* the #[getter] methods of Grid
Get(g, name) ==
  CASE name \in PlainGetters -> Returned(g[name])
    [] name = "n_triangles" -> Returned(get_n_triangles(g))
    [] name = "xyunits" -> Returned(UnitOfMeasure_from(g.xyunits))
    [] name = "zunits" -> Returned(UnitOfMeasure_from(g.zunits))
    [] name = "created_date" -> get_created_date(g)
    [] name = "data" -> get_data(g)
    [] name = "is_rectangular" -> Returned(get_is_rectangular(g))
    [] name = "is_triangular" -> Returned(get_is_triangular(g))
    [] OTHER -> Returned(repr(g))

(***************************************************************************)
(* One read_grid call.                                                     *)
(***************************************************************************)
VARIABLES
  input,     \* the argument: a str naming a file (that exists or not), or another object
  content,   \* the bytes of the local file
  filey,     \* "none", "RustFile" or "PyFileLike"
  fpos,      \* the local file's offset
  pc,        \* "start", "decode" or "done"
  req,       \* the decoder's last request
  ret,       \* what Filey returned for it
  buf,       \* the buffer of the last read, after it
  hostLog,   \* the calls the last request made on the host object
  hostResp,  \* what the host object answered
  ncalls,    \* requests made so far
  decodes,   \* times the decoder was started
  derr,      \* the decoder's error, if it ended with one
  result     \* what read_grid ended with

streamVars == <<input, content, filey, fpos, pc, req, ret, buf, hostLog, hostResp,
                ncalls, decodes, derr, result>>

\* The same requests made of a RustFile and of a PyFileLike over one file
VARIABLES
  eContent,  \* the bytes of the file
  posR,      \* the offset of the RustFile
  posP,      \* the offset of the host file object
  eReq,      \* the last request
  retR,      \* what the RustFile returned for it
  retP,      \* what the PyFileLike returned for it
  bufR,      \* the buffer after a read of the RustFile
  bufP,      \* the buffer after a read of the PyFileLike
  seenR,     \* everything the decoder was given by the RustFile
  seenP,     \* everything the decoder was given by the PyFileLike
  eCalls,    \* requests made so far
  outR,      \* what read_grid(path) ended with
  outP       \* what read_grid(handle) ended with

equivVars == <<eContent, posR, posP, eReq, retR, retP, bufR, bufP, seenR, seenP,
               eCalls, outR, outP>>

\* Threads of the host calling read_grid
VARIABLES
  gil,       \* the thread holding the interpreter lock, 0 when it is free
  tkind,     \* per thread: the Filey variant its read_grid works on
  tpc,       \* per thread: where it is
  tdepth,    \* per thread: how many times it has entered the lock
  tcalls     \* per thread: requests made so far

gilVars == <<gil, tkind, tpc, tdepth, tcalls>>

\* A Grid returned by read_grid and the getters called on it
VARIABLES
  grid,      \* the wrapped record, once read_grid has returned
  getter,    \* the last getter called
  got        \* what it returned

gridVars == <<grid, getter, got>>

vars == <<streamVars, equivVars, gilVars, gridVars>>

NoGrid == [version |-> 0]
NoGot == [ok |-> TRUE, val |-> <<>>]
NoOut == [kind |-> "none", data |-> <<>>]

StreamIdle ==
  /\ input = [isStr |-> FALSE, exists |-> FALSE]
  /\ content = <<>> /\ filey = "none" /\ fpos = 0 /\ pc = "idle"
  /\ req = NoReq /\ ret = NoRet /\ buf = <<>> /\ hostLog = <<>> /\ hostResp = NoResp
  /\ ncalls = 0 /\ decodes = 0 /\ derr = NoError /\ result = NoResult

EquivIdle ==
  /\ eContent = <<>> /\ posR = 0 /\ posP = 0 /\ eReq = NoReq
  /\ retR = NoRet /\ retP = NoRet /\ bufR = <<>> /\ bufP = <<>>
  /\ seenR = <<>> /\ seenP = <<>> /\ eCalls = 0 /\ outR = NoOut /\ outP = NoOut

GilIdle ==
  /\ gil = 0 /\ tkind = <<>> /\ tpc = <<>> /\ tdepth = <<>> /\ tcalls = <<>>

GridIdle ==
  /\ grid = NoGrid /\ getter = "none" /\ got = NoGot

Inputs == {[isStr |-> TRUE, exists |-> TRUE],
           [isStr |-> TRUE, exists |-> FALSE],
           [isStr |-> FALSE, exists |-> FALSE]}

\* what a host object may answer: anything
HostReadResponses ==
  {HostRaise, HostStr} \cup {HostBytes(b) : b \in SeqsUpTo(Byte, MaxBuf + 1)}
HostSeekResponses ==
  {HostRaise, HostStr} \cup {HostInt(v) : v \in -1 .. U64Max + 1}

Init ==
  /\ EquivIdle /\ GilIdle /\ GridIdle
  /\ input \in Inputs
  /\ content \in (IF input.isStr /\ input.exists THEN SeqsUpTo(Byte, MaxLen) ELSE {<<>>})
  /\ filey = "none"
  /\ fpos = 0
  /\ pc = "start"
  /\ req = NoReq
  /\ ret = NoRet
  /\ buf = <<>>
  /\ hostLog = <<>>
  /\ hostResp = NoResp
  /\ ncalls = 0
  /\ decodes = 0
  /\ derr = NoError
  /\ result = NoResult

\* Filey::from, then the start of Grid::read; a failed File::open ends read_grid
\* through the `?` of its first line
Filey_from ==
  /\ pc = "start"
  /\ IF input.isStr
     THEN IF input.exists
          THEN /\ filey' = "RustFile"
               /\ pc' = "decode"
               /\ decodes' = decodes + 1
               /\ result' = result
          ELSE /\ filey' = "none"
               /\ pc' = "done"
               /\ decodes' = decodes
               /\ result' = PyOSError("ENOENT")
     ELSE /\ filey' = "PyFileLike"
          /\ pc' = "decode"
          /\ decodes' = decodes + 1
          /\ result' = result
  /\ UNCHANGED <<equivVars, gilVars, gridVars>>
  /\ UNCHANGED <<input, content, fpos, req, ret, buf, hostLog, hostResp, ncalls, derr>>

\* the decoder goes on only after a successful call
CanRequest == pc = "decode" /\ ret.ok /\ ncalls < MaxCalls

\* impl Read for Filey
Filey_read(n) ==
  /\ CanRequest
  /\ req' = ReqRead(n)
  /\ ncalls' = ncalls + 1
  /\ IF filey = "RustFile"
     THEN LET r == RustFile_read(content, fpos, n)
          IN  /\ ret' = r.ret
              /\ buf' = [i \in 1 .. n |-> IF i <= r.ret.val THEN r.data[i] ELSE 0]
              /\ fpos' = r.pos
              /\ hostLog' = <<>>
              /\ hostResp' = NoResp
     ELSE \E resp \in HostReadResponses :
            LET r == PyRead_result(Zeros(n), resp)
            IN  /\ ret' = r.ret
                /\ buf' = r.buf
                /\ fpos' = fpos
                /\ hostLog' = <<PyRead_call(Zeros(n))>>
                /\ hostResp' = resp
  /\ UNCHANGED <<equivVars, gilVars, gridVars>>
  /\ UNCHANGED <<input, content, filey, pc, decodes, derr, result>>

\* impl Seek for Filey
Filey_seek(whence, off) ==
  /\ CanRequest
  /\ req' = ReqSeek(whence, off)
  /\ ncalls' = ncalls + 1
  /\ buf' = <<>>
  /\ IF filey = "RustFile"
     THEN LET r == RustFile_seek(content, fpos, whence, off)
          IN  /\ ret' = r.ret
              /\ fpos' = r.pos
              /\ hostLog' = <<>>
              /\ hostResp' = NoResp
     ELSE \E resp \in HostSeekResponses :
            /\ ret' = PySeek_result(resp)
            /\ fpos' = fpos
            /\ hostLog' = <<PySeek_call(whence, off)>>
            /\ hostResp' = resp
  /\ UNCHANGED <<equivVars, gilVars, gridVars>>
  /\ UNCHANGED <<input, content, filey, pc, decodes, derr, result>>

\* Grid::read ends with a record
DecodeOk ==
  /\ pc = "decode" /\ ret.ok
  /\ derr' = NoError
  /\ result' = read_grid_end(NoError)
  /\ pc' = "done"
  /\ UNCHANGED <<equivVars, gilVars, gridVars>>
  /\ UNCHANGED <<input, content, filey, fpos, req, ret, buf, hostLog, hostResp, ncalls, decodes>>

\* Grid::read ends with a decode failure of its own
DecodeFormatError ==
  /\ pc = "decode" /\ ret.ok
  /\ \E e \in FormatErrors :
       /\ derr' = e
       /\ result' = read_grid_end(e)
  /\ pc' = "done"
  /\ UNCHANGED <<equivVars, gilVars, gridVars>>
  /\ UNCHANGED <<input, content, filey, fpos, req, ret, buf, hostLog, hostResp, ncalls, decodes>>

\* Grid::read ends with the stream's error
DecodeIoError ==
  /\ pc = "decode" /\ ~ret.ok
  /\ derr' = IOError(ret.err)
  /\ result' = read_grid_end(IOError(ret.err))
  /\ pc' = "done"
  /\ UNCHANGED <<equivVars, gilVars, gridVars>>
  /\ UNCHANGED <<input, content, filey, fpos, req, ret, buf, hostLog, hostResp, ncalls, decodes>>

Next ==
  \/ Filey_from
  \/ \E n \in 0 .. MaxBuf : Filey_read(n)
  \/ \E s \in SeekFroms : Filey_seek(s.whence, s.off)
  \/ DecodeOk
  \/ DecodeFormatError
  \/ DecodeIoError

Spec == Init /\ [][Next]_vars

(***************************************************************************)
(* Claims about one read_grid call.                                        *)
(***************************************************************************)
\* the handle's seek raised, or returned what is no offset
BadSeekAnswer ==
  /\ filey = "PyFileLike" /\ req.op = "seek"
  /\ \/ hostResp.tag \in {"raise", "str"}
     \/ hostResp.tag = "int" /\ hostResp.v < 0

\* C4: when a foreign handle's seek raises or returns a value that is no
\* non-negative integer offset, the seek returns an I/O error to the decoder and
\* read_grid ends with an I/O-category error, never a value-category error or a Grid.
C4_BadSeekIsIoError ==
  BadSeekAnswer =>
    /\ ~ret.ok
    /\ pc = "done" => (result.kind = "Err" /\ result.cat = "io")

C4_Witness ==
  /\ BadSeekAnswer /\ hostResp.tag = "str"
  /\ pc = "done" /\ result.cat = "io"

\* C5: a read of n bytes on a foreign handle whose read(n) returns b with |b| <= n
\* succeeds with count |b|, leaves b in the first |b| bytes of the buffer, and calls
\* the handle once, with n.
C5_ShortReadIsSuccess ==
  (/\ filey = "PyFileLike" /\ req.op = "read"
   /\ hostResp.tag = "bytes" /\ Len(hostResp.b) <= req.n)
  =>
    /\ ret.ok
    /\ ret.val = Len(hostResp.b)
    /\ SubSeq(buf, 1, Len(hostResp.b)) = hostResp.b
    /\ Len(buf) = req.n
    /\ hostLog = <<HostCall("read", req.n, 0)>>

C5_Witness ==
  /\ filey = "PyFileLike" /\ req.op = "read" /\ req.n = 2
  /\ hostResp = HostBytes(<<1>>)
  /\ ret = IoOk(1) /\ buf[1] = 1

\* C6: a decode error of the I/O variant ends read_grid with an I/O-category
\* error carrying the same underlying error, every other variant with a
\* value-category error whose description is the error's message; the decoder ran
\* once and no Grid is returned.
C6_ErrorTranslation ==
  (pc = "done" /\ derr.variant # "none") =>
    /\ result.kind = "Err"
    /\ result.cat \in {"io", "value"}
    /\ derr.variant = "IOError" =>
         (result.cat = "io" /\ result.cause = derr.cause /\ result.cause = ret.err)
    /\ derr.variant # "IOError" => (result.cat = "value" /\ result.msg = derr.msg)
    /\ decodes = 1

C6_Witness ==
  /\ pc = "done" /\ derr = IOError("PyErr")
  /\ result.cat = "io" /\ result.cause = "PyErr" /\ decodes = 1

\* C10: a seek on a foreign handle calls the handle's seek once with the
\* requested offset as an integer (never a negative number for a Start offset) and
\* whence 0, 1 or 2 for Start, Current, End, and returns the integer the handle returned.
C10_SeekArgsExact ==
  (filey = "PyFileLike" /\ req.op = "seek") =>
    /\ hostLog = <<HostCall("seek", req.off, WhenceCode(req.whence))>>
    /\ req.whence = "Start" => hostLog[1].a1 >= 0
    /\ (hostResp.tag = "int" /\ hostResp.v \in U64) => ret = IoOk(hostResp.v)

(***************************************************************************)
(* read_grid(path) beside read_grid(handle), the handle being a            *)
(* well-behaved host file object over the same file: the decoder, the same *)
(* function of what it is given, makes the same requests of both.          *)
(***************************************************************************)
EquivInit ==
  /\ StreamIdle /\ GilIdle /\ GridIdle
  /\ eContent \in SeqsUpTo(Byte, MaxLen)
  /\ posR = 0 /\ posP = 0 /\ eReq = NoReq
  /\ retR = NoRet /\ retP = NoRet /\ bufR = <<>> /\ bufP = <<>>
  /\ seenR = <<>> /\ seenP = <<>> /\ eCalls = 0 /\ outR = NoOut /\ outP = NoOut

EquivCanRequest ==
  /\ outR.kind = "none" /\ outP.kind = "none"
  /\ retR.ok /\ retP.ok /\ eCalls < MaxCalls

\* what the decoder is given by a call
Given(r, data) == [ok |-> r.ok, val |-> r.val, data |-> data]

EquivRead(n) ==
  /\ EquivCanRequest
  /\ LET r == RustFile_read(eContent, posR, n)
         call == PyRead_call(Zeros(n))
         h == HostFile_read(eContent, posP, call.a1)
         p == PyRead_result(Zeros(n), h.resp)
     IN  /\ retR' = r.ret
         /\ bufR' = [i \in 1 .. n |-> IF i <= r.ret.val THEN r.data[i] ELSE 0]
         /\ posR' = r.pos
         /\ seenR' = Append(seenR, Given(r.ret, r.data))
         /\ retP' = p.ret
         /\ bufP' = p.buf
         /\ posP' = h.pos
         /\ seenP' = Append(seenP, Given(p.ret, SubSeq(p.buf, 1, p.ret.val)))
  /\ eReq' = ReqRead(n)
  /\ eCalls' = eCalls + 1
  /\ UNCHANGED <<streamVars, gilVars, gridVars>>
  /\ UNCHANGED <<eContent, outR, outP>>

EquivSeek(whence, off) ==
  /\ EquivCanRequest
  /\ LET r == RustFile_seek(eContent, posR, whence, off)
         call == PySeek_call(whence, off)
         h == HostFile_seek(eContent, posP, call.a1, call.a2)
         p == PySeek_result(h.resp)
     IN  /\ retR' = r.ret
         /\ posR' = r.pos
         /\ seenR' = Append(seenR, Given(r.ret, <<>>))
         /\ retP' = p
         /\ posP' = h.pos
         /\ seenP' = Append(seenP, Given(p, <<>>))
  /\ bufR' = <<>> /\ bufP' = <<>>
  /\ eReq' = ReqSeek(whence, off)
  /\ eCalls' = eCalls + 1
  /\ UNCHANGED <<streamVars, gilVars, gridVars>>
  /\ UNCHANGED <<eContent, outR, outP>>

\* the decoder's end: the stream's error, or a record made of what it was given
Decoded(r, seen) ==
  IF r.ok THEN [kind |-> "Grid", data |-> seen] ELSE [kind |-> "Err", data |-> <<>>]

EquivFinish ==
  /\ outR.kind = "none" /\ outP.kind = "none"
  /\ eCalls > 0
  /\ outR' = Decoded(retR, seenR)
  /\ outP' = Decoded(retP, seenP)
  /\ UNCHANGED <<streamVars, gilVars, gridVars>>
  /\ UNCHANGED <<eContent, posR, posP, eReq, retR, retP, bufR, bufP, seenR, seenP, eCalls>>

EquivNext ==
  \/ \E n \in 0 .. MaxBuf : EquivRead(n)
  \/ \E s \in SeekFroms : EquivSeek(s.whence, s.off)
  \/ EquivFinish

SpecEquiv == EquivInit /\ [][EquivNext]_vars

\* C3: over the same bytes, every read and seek returns the same from the
\* local-file variant and from the foreign-handle variant wrapping a well-behaved
\* host file object (same success or failure, same count and bytes, same offset),
\* so both read_grid calls end with the same Grid.
C3_StreamSourceEquivalence ==
  /\ retR.ok = retP.ok
  /\ retR.val = retP.val
  /\ bufR = bufP
  /\ posR = posP
  /\ seenR = seenP
  /\ outR = outP

C3_Witness ==
  /\ eCalls = 2 /\ eReq.op = "read" /\ Len(seenP) = 2
  /\ seenP[1] = Given(IoOk(1), <<>>)
  /\ retP = IoOk(1) /\ bufP[1] = 1
  /\ outR.kind = "Grid" /\ outP = outR

(***************************************************************************)
(* Host threads calling read_grid, and the interpreter lock.               *)
(*                                                                         *)
(* read_grid is a #[pyfunction]: the host calls it from a thread that      *)
(* holds the interpreter lock, and nothing in read_grid gives the lock up  *)
(* (there is no allow_threads).  Python::with_gil is re-entrant: in a      *)
(* thread that holds the lock it only counts the entry, and leaving it     *)
(* gives the lock back only when the outermost entry is left.  While a     *)
(* method of the host object runs, the interpreter itself may hand the     *)
(* lock to another thread and take it back before the method returns.      *)
(***************************************************************************)
NThreads == 2
Threads == 1 .. NThreads

\* Python::with_gil, entering: the lock's holder and the thread's entry count
with_gil_enter(t, holder, depth) ==
  [can |-> holder \in {0, t}, holder |-> t, depth |-> depth + 1]

\* Python::with_gil, leaving
with_gil_leave(t, holder, depth) ==
  [holder |-> IF depth = 1 THEN 0 ELSE holder, depth |-> depth - 1]

GilInit ==
  /\ StreamIdle /\ EquivIdle /\ GridIdle
  /\ gil = 0
  /\ tkind \in [Threads -> {"RustFile", "PyFileLike"}]
  /\ tpc = [t \in Threads |-> "python"]
  /\ tdepth = [t \in Threads |-> 0]
  /\ tcalls = [t \in Threads |-> 0]

\* the interpreter gives the lock to a thread running host code
PyAcquire(t) ==
  /\ tpc[t] = "python" /\ gil = 0 /\ tcalls[t] = 0
  /\ gil' = t
  /\ tdepth' = [tdepth EXCEPT ![t] = 1]
  /\ UNCHANGED <<tkind, tpc, tcalls>>
  /\ UNCHANGED <<streamVars, equivVars, gridVars>>

\* the host calls read_grid(name_or_file_like)
read_grid_call(t) ==
  /\ tpc[t] = "python" /\ gil = t /\ tcalls[t] = 0
  /\ tpc' = [tpc EXCEPT ![t] = "from"]
  /\ UNCHANGED <<gil, tkind, tdepth, tcalls>>
  /\ UNCHANGED <<streamVars, equivVars, gridVars>>

\* Filey::from: with_gil around the extract and, for a str, File::open
Filey_from_enter(t) ==
  /\ tpc[t] = "from"
  /\ LET g == with_gil_enter(t, gil, tdepth[t])
     IN  /\ g.can
         /\ gil' = g.holder
         /\ tdepth' = [tdepth EXCEPT ![t] = g.depth]
  /\ tpc' = [tpc EXCEPT ![t] = "opening"]
  /\ UNCHANGED <<tkind, tcalls>>
  /\ UNCHANGED <<streamVars, equivVars, gridVars>>

Filey_from_leave(t) ==
  /\ tpc[t] = "opening"
  /\ LET g == with_gil_leave(t, gil, tdepth[t])
     IN  /\ gil' = g.holder
         /\ tdepth' = [tdepth EXCEPT ![t] = g.depth]
  /\ tpc' = [tpc EXCEPT ![t] = "decoding"]
  /\ UNCHANGED <<tkind, tcalls>>
  /\ UNCHANGED <<streamVars, equivVars, gridVars>>

\* a read or seek of Filey::RustFile: no with_gil
RustFile_call(t) ==
  /\ tpc[t] = "decoding" /\ tkind[t] = "RustFile" /\ tcalls[t] < MaxCalls
  /\ tpc' = [tpc EXCEPT ![t] = "native_call"]
  /\ tcalls' = [tcalls EXCEPT ![t] = @ + 1]
  /\ UNCHANGED <<gil, tkind, tdepth>>
  /\ UNCHANGED <<streamVars, equivVars, gridVars>>

RustFile_return(t) ==
  /\ tpc[t] = "native_call"
  /\ tpc' = [tpc EXCEPT ![t] = "decoding"]
  /\ UNCHANGED <<gil, tkind, tdepth, tcalls>>
  /\ UNCHANGED <<streamVars, equivVars, gridVars>>

\* a read or seek of Filey::PyFileLike: with_gil around the method call
PyFileLike_call(t) ==
  /\ tpc[t] = "decoding" /\ tkind[t] = "PyFileLike" /\ tcalls[t] < MaxCalls
  /\ LET g == with_gil_enter(t, gil, tdepth[t])
     IN  /\ g.can
         /\ gil' = g.holder
         /\ tdepth' = [tdepth EXCEPT ![t] = g.depth]
  /\ tpc' = [tpc EXCEPT ![t] = "host_call"]
  /\ tcalls' = [tcalls EXCEPT ![t] = @ + 1]
  /\ UNCHANGED tkind
  /\ UNCHANGED <<streamVars, equivVars, gridVars>>

\* the interpreter takes the lock from the thread while the host method runs
HostYield(t) ==
  /\ tpc[t] = "host_call" /\ gil = t
  /\ gil' = 0
  /\ tpc' = [tpc EXCEPT ![t] = "host_wait"]
  /\ UNCHANGED <<tkind, tdepth, tcalls>>
  /\ UNCHANGED <<streamVars, equivVars, gridVars>>

\* and gives it back
HostResume(t) ==
  /\ tpc[t] = "host_wait" /\ gil = 0
  /\ gil' = t
  /\ tpc' = [tpc EXCEPT ![t] = "host_call"]
  /\ UNCHANGED <<tkind, tdepth, tcalls>>
  /\ UNCHANGED <<streamVars, equivVars, gridVars>>

PyFileLike_return(t) ==
  /\ tpc[t] = "host_call" /\ gil = t
  /\ LET g == with_gil_leave(t, gil, tdepth[t])
     IN  /\ gil' = g.holder
         /\ tdepth' = [tdepth EXCEPT ![t] = g.depth]
  /\ tpc' = [tpc EXCEPT ![t] = "decoding"]
  /\ UNCHANGED <<tkind, tcalls>>
  /\ UNCHANGED <<streamVars, equivVars, gridVars>>

\* Grid::read ends and read_grid returns to the host, the lock still held
read_grid_return(t) ==
  /\ tpc[t] = "decoding" /\ tcalls[t] > 0
  /\ tpc' = [tpc EXCEPT ![t] = "python"]
  /\ UNCHANGED <<gil, tkind, tdepth, tcalls>>
  /\ UNCHANGED <<streamVars, equivVars, gridVars>>

\* the interpreter takes the lock from a thread running host code
PyRelease(t) ==
  /\ tpc[t] = "python" /\ gil = t
  /\ gil' = 0
  /\ tdepth' = [tdepth EXCEPT ![t] = 0]
  /\ UNCHANGED <<tkind, tpc, tcalls>>
  /\ UNCHANGED <<streamVars, equivVars, gridVars>>

GilNext ==
  \E t \in Threads :
    \/ PyAcquire(t)
    \/ read_grid_call(t)
    \/ Filey_from_enter(t)
    \/ Filey_from_leave(t)
    \/ RustFile_call(t)
    \/ RustFile_return(t)
    \/ PyFileLike_call(t)
    \/ HostYield(t)
    \/ HostResume(t)
    \/ PyFileLike_return(t)
    \/ read_grid_return(t)
    \/ PyRelease(t)

SpecGil == GilInit /\ [][GilNext]_vars

\* C1: in a read_grid on a foreign handle the lock is taken and given back once
\* per read/seek call and is free between two calls of one decode, so that another
\* read_grid can take it there.
C1_LockFreeBetweenCalls ==
  \A t \in Threads :
    (tkind[t] = "PyFileLike" /\ tpc[t] = "decoding") => gil # t

\* C2: a read_grid on a path holds the lock at no point while it opens, reads,
\* seeks and decodes the file.
C2_LocalFileHoldsNoLock ==
  \A t \in Threads :
    (tkind[t] = "RustFile" /\ tpc[t] \in {"opening", "decoding", "native_call"}) => gil # t

(***************************************************************************)
(* A Grid returned by read_grid, and getters called on it.                 *)
(***************************************************************************)
GridInit ==
  /\ StreamIdle /\ EquivIdle /\ GilIdle
  /\ grid = NoGrid /\ getter = "none" /\ got = NoGot

\* read_grid returns Ok(Grid(record)) for a record of the decoder
read_grid_ok ==
  /\ grid = NoGrid
  /\ grid' \in GridRecords
  /\ UNCHANGED <<getter, got>>
  /\ UNCHANGED <<streamVars, equivVars, gilVars>>

\* the host reads an attribute of the Grid
CallGetter(name) ==
  /\ grid # NoGrid
  /\ getter' = name
  /\ got' = Get(grid, name)
  /\ UNCHANGED grid
  /\ UNCHANGED <<streamVars, equivVars, gilVars>>

GridNext ==
  \/ read_grid_ok
  \/ \E name \in Getters : CallGetter(name)

SpecGrid == GridInit /\ [][GridNext]_vars

\* C8: every getter of a Grid returns a value, for every record the Grid can wrap;
\* created_date returns a calendar value for every date the record can hold.
C8_GettersTotal == got.ok

\* C9: for every Grid returned by read_grid exactly one of is_rectangular and
\* is_triangular is true, and n_triangles is 0 exactly when is_rectangular is true.
C9_ExactlyOneShape ==
  grid # NoGrid =>
    /\ get_is_rectangular(grid) # get_is_triangular(grid)
    /\ (get_n_triangles(grid) = 0) <=> get_is_rectangular(grid)
    /\ getter = "is_rectangular" => got = Returned(grid.data.tag = "Rectangular")
    /\ getter = "is_triangular" => got = Returned(grid.data.tag = "Triangular")
    /\ getter = "n_triangles" => got = Returned(grid.n_triangles)

C9_Witness ==
  /\ grid # NoGrid /\ grid.data.tag = "Triangular" /\ grid.n_triangles = 2
  /\ getter = "is_triangular" /\ got = Returned(TRUE)

====
